---- MODULE Spec2Model ----
(***************************************************************************)
(* A model of sagids/grid.py: the Grid / Cell / Marker data model, the     *)
(* zone partitioning (Grid.partition), marking (Grid.mark) and the game    *)
(* loop (game).  One behaviour is one execution of run(): build,           *)
(* partition, mark, game.  Random choices are nondeterministic choices.    *)
(***************************************************************************)
EXTENDS Integers, Sequences, FiniteSets, TLC

---------------------------------------------------------------------------
(* Bounds of the model *)

\* the game loop is explored up to this many applied moves
MaxMoves == 3

\* outcomes of random.sample that are enumerated: the population rotated
\* right by 1..MaxRot places, cut to the sample size
MaxRot == 1

---------------------------------------------------------------------------
(* Values: None, fractions.Fraction, Cell, Marker, Option *)

Abs(i) == IF i < 0 THEN -i ELSE i

RECURSIVE GCD(_, _)
GCD(a, b) == IF b = 0 THEN a ELSE GCD(b, a % b)

\* the unset (None) value of a Fraction-typed field
NoFraction == [num |-> 0, den |-> 0]

\* Fraction(a, b) for a >= 0, b > 0: stored in lowest terms
Fraction(a, b) == [num |-> a \div GCD(a, b), den |-> b \div GCD(a, b)]

\* Fraction.__mul__
FracMul(f, g) == Fraction(f.num * g.num, f.den * g.den)

\* Grid.Cell(spot): a frozen dataclass, equal iff the spots are equal
Cell(spot) == [spot |-> spot]

\* the unset (None) value of a Cell-typed field
NoCell == [spot |-> <<-1, -1>>]

\* the unset (None) value of Option.transit (marker ids of a grid start at 1)
NoMarker == 0

\* Grid.Cell.value
CellValue(cell) ==
    LET a == cell.spot[1] % 2
        b == cell.spot[2] % 2
    IN  IF a = 0 THEN (IF b = 0 THEN 1 ELSE 7)
                 ELSE (IF b = 0 THEN 3 ELSE 5)

\* Transits that takes the absolute value of one coordinate only
TransitsOneSided(self, cell) ==
    LET vector == <<cell.spot[1] - self.spot[1], cell.spot[2] - self.spot[2]>>
    IN  Abs(vector[1]) = vector[2]

\* Grid.Cell.transits
Transits(self, cell) ==
    LET vector == <<cell.spot[1] - self.spot[1], cell.spot[2] - self.spot[2]>>
    IN  Abs(vector[1]) = Abs(vector[2])

\* Grid.Marker
Marker(id, value, cell) == [id |-> id, value |-> value, cell |-> cell]

\* Grid.Option; transit and total default to None
Option(marker, cell, result, transit, total) ==
    [marker |-> marker, cell |-> cell, result |-> result,
     transit |-> transit, total |-> total]

\* default of game()'s goal parameter
Goal == [num |-> 3, den |-> 16]

\* the turn limit run() passes to game()
RunLimit == 100000

\* the turn limits game() is called with
Limits == {0, 1, RunLimit}

---------------------------------------------------------------------------
(* Grid.build *)

\* numerators of the population [Fraction(n, 9) for n in [1, 2, 4, 5, 7, 8]]
Population == <<1, 2, 4, 5, 7, 8>>

RotateRight(s, r) ==
    [i \in 1..Len(s) |-> s[((i - 1 - r + Len(s)) % Len(s)) + 1]]

\* the enumerated outcomes of random.sample(population, k), k <= 6
Samples(k) ==
    {SubSeq(RotateRight(Population, r), 1, k) : r \in 1..MaxRot}

\* Grid.build_markers given the outcome of random.sample
BuildMarkers(sample) ==
    [n \in 1..Len(sample) |-> Marker(n, Fraction(sample[n], 9), NoCell)]

\* the (n_sectors, n_regions) arguments Grid.build is called with
BuildArgs == {<<2, 4>>, <<2, 8>>, <<3, 4>>}

\* the default arguments of Grid.build
DefaultArgs == <<4, 4>>

\* int(Decimal(n_sectors).sqrt() * Decimal(n_regions).sqrt()) in the default
\* 28-digit decimal context, for the arguments of BuildArgs and the default
\* arguments (sqrt(2)*sqrt(8) is 3.999... there, hence 3)
BoardSize(n_sectors, n_regions) ==
    CASE <<n_sectors, n_regions>> = <<2, 4>> -> 2
      [] <<n_sectors, n_regions>> = <<2, 8>> -> 3
      [] <<n_sectors, n_regions>> = <<3, 4>> -> 3
      [] <<n_sectors, n_regions>> = <<4, 4>> -> 4

\* itertools.product(range(size), repeat=2), in generation order
Product(size) ==
    [i \in 1..(size * size) |-> <<(i - 1) \div size, (i - 1) % size>>]

\* the cells mapping built by Grid.build, as the sequence of its values in
\* insertion order (the key of a cell is its spot)
BuildCells(size) == [i \in 1..(size * size) |-> Cell(Product(size)[i])]

Range(s) == {s[i] : i \in 1..Len(s)}

---------------------------------------------------------------------------
VARIABLES
    markers,   \* grid.markers: id -> Marker, in insertion order
    cells,     \* grid.cells: the cells in insertion order
    pc,        \* the position of run()
    placed,    \* partition(): the local list `markers`
    pool,      \* partition(): the local set `pool`
    args,      \* mark(): the argument list of the call, [] once game() runs
    limit,     \* game(): the parameter `limit`
    n,         \* game(): the turn counter `n`
    turn,      \* game(): position of the for loop over grid.markers
    moves,     \* game(): the list `moves`
    events,    \* the per-move records given to logger.info
    err,       \* the exception that ended the run, "" if none
    call,      \* the last direct call of results() or options(), if any
    out        \* the list that call produced

vars == <<markers, cells, pc, placed, pool, args, limit, n, turn, moves, events, err,
          call, out>>

Count == Len(markers)

\* no direct call of results() or options() was made
NoCall == [name |-> "", self |-> 0, cardinal |-> 0, cell |-> NoCell]

\* spots that are keys of grid.cells
HasSpot(cs, spot) == \E i \in 1..Len(cs) : cs[i].spot = spot

\* grid.cells[spot]
CellAt(cs, spot) == CHOOSE c \in Range(cs) : c.spot = spot

Init ==
    /\ \E a \in BuildArgs :
          /\ \E sample \in Samples(a[1]) : markers = BuildMarkers(sample)
          /\ cells = BuildCells(BoardSize(a[1], a[2]))
    /\ pc = "built"
    /\ placed = <<>>
    /\ pool = {}
    /\ args = <<>>
    /\ limit = 0
    /\ n = 0
    /\ turn = 1
    /\ moves = <<>>
    /\ events = <<>>
    /\ err = ""
    /\ call = NoCall
    /\ out = <<>>


---------------------------------------------------------------------------
(* Grid.Marker: zone, results, options *)

\* Zone that holds the spot of the marker's cell only
ZoneOfCell(marker, cs) ==
    IF marker.cell = NoCell THEN <<>> ELSE <<marker.cell.spot>>

\* Grid.Marker.zone: the keys of grid.cells in the quadrant of the marker's
\* cell, in the order of grid.cells; [] when the marker has no cell
Zone(marker, cs) ==
    IF marker.cell = NoCell
    THEN <<>>
    ELSE LET quadrant == <<marker.cell.spot[1] \div 2, marker.cell.spot[2] \div 2>>
             keys == [i \in 1..Len(cs) |-> cs[i].spot]
             InQuadrant(spot) == <<spot[1] \div 2, spot[2] \div 2>> = quadrant
         IN  SelectSeq(keys, InQuadrant)

\* ResultPairs with ranges that stop one short
ResultPairsShort(cardinal) ==
    [i \in 1..cardinal |-> <<i - 1, cardinal - (i - 1)>>]

\* zip(range(0, cardinal + 1), range(cardinal, -1, -1))
ResultPairs(cardinal) ==
    [i \in 1..(cardinal + 1) |-> <<i - 1, cardinal - (i - 1)>>]

\* Digit without the reduction modulo 10
DigitUnbounded(x) == x

\* the `% 10` of the numerator and the denominator
Digit(x) == x % 10

\* Grid.Marker.results: the generated fractions in generation order; a pair
\* whose denominator is 0 raises ZeroDivisionError, which is passed over
RECURSIVE ResultsFrom(_, _, _)
ResultsFrom(value, pairs, i) ==
    IF i > Len(pairs)
    THEN <<>>
    ELSE LET a == Digit(value.num + pairs[i][1])
             b == Digit(value.den + pairs[i][2])
         IN  IF b = 0
             THEN ResultsFrom(value, pairs, i + 1)
             ELSE <<Fraction(a, b)>> \o ResultsFrom(value, pairs, i + 1)

Results(value, cardinal) == ResultsFrom(value, ResultPairs(cardinal), 1)

\* TransitMarkers without the test `m is not self`
TransitMarkersWithSelf(ms, self, cell) ==
    LET ids == [i \in 1..Len(ms) |-> i]
        Keep(i) == Transits(ms[i].cell, cell)
    IN  SelectSeq(ids, Keep)

\* the list `transits` of Grid.Marker.options: ids of the other markers of
\* the grid whose cell transits the destination, in the order of grid.markers
TransitMarkers(ms, self, cell) ==
    LET ids == [i \in 1..Len(ms) |-> i]
        Keep(i) == i # self /\ Transits(ms[i].cell, cell)
    IN  SelectSeq(ids, Keep)

\* Grid.Marker.options raises AttributeError when another marker of the grid
\* has no cell (None has no attribute transits)
OptionsRaises(ms, self) == \E i \in 1..Len(ms) : i # self /\ ms[i].cell = NoCell

\* the options emitted for one result r
OptionsOfResult(ms, self, cell, r, transits) ==
    <<Option(self, cell, r, NoMarker, NoFraction)>> \o
    [j \in 1..Len(transits) |->
        Option(self, cell, r, transits[j], FracMul(r, ms[transits[j]].value))]

RECURSIVE OptionsFrom(_, _, _, _, _, _)
OptionsFrom(ms, self, cell, rs, transits, i) ==
    IF i > Len(rs)
    THEN <<>>
    ELSE OptionsOfResult(ms, self, cell, rs[i], transits)
         \o OptionsFrom(ms, self, cell, rs, transits, i + 1)

\* Grid.Marker.options, for a grid whose markers all have a cell
Options(ms, self, cell) ==
    OptionsFrom(ms, self, cell, Results(ms[self].value, CellValue(cell)),
                TransitMarkers(ms, self, cell), 1)

---------------------------------------------------------------------------
(* Grid.partition *)

\* Cell.__eq__ against a spot: a dataclass compares equal only to an
\* instance of its own class, and the spots of a zone are plain tuples
CellEqualsSpot(cell, spot) == FALSE

\* `cell in m.zone`
InZone(cell, zone) == \E i \in 1..Len(zone) : CellEqualsSpot(cell, zone[i])

\* Accepts without the test of the transits
AcceptsAnyDiagonal(ps, cell, cs) ==
    ~ \E k \in 1..Len(ps) : InZone(cell, Zone(ps[k], cs))

\* Accepts that also rejects a cell in the row or the column of a placement
AcceptsOffLines(ps, cell, cs) ==
    /\ ~ \E k \in 1..Len(ps) : InZone(cell, Zone(ps[k], cs))
    /\ ~ \E k \in 1..Len(ps) : Transits(cell, ps[k].cell)
    /\ ~ \E k \in 1..Len(ps) : \/ cell.spot[1] = ps[k].cell.spot[1]
                               \/ cell.spot[2] = ps[k].cell.spot[2]

\* the two tests of one iteration of partition() on the drawn cell
Accepts(ps, cell, cs) ==
    /\ ~ \E k \in 1..Len(ps) : InZone(cell, Zone(ps[k], cs))
    /\ ~ \E k \in 1..Len(ps) : Transits(cell, ps[k].cell)

\* set(zone) of an accepted marker: the cells rebuilt from the zone's spots
ZoneCells(marker, cs) == {Cell(spot) : spot \in Range(Zone(marker, cs))}

\* LoopContinues that also ends the loop on an empty pool
LoopContinuesWhilePool(ps, ms, pl) == Len(ps) < Len(ms) /\ pl # {}

\* the loop condition of partition()
LoopContinues(ps, ms, pl) == Len(ps) < Len(ms)

\* partition() is entered: markers = [], pool = set(self.cells.values())
PartitionCall ==
    /\ pc = "built"
    /\ pc' = "partition"
    /\ placed' = <<>>
    /\ pool' = Range(cells)
    /\ UNCHANGED <<markers, cells, args, limit, n, turn, moves, events, err, call, out>>

\* random.choice(list(pool)) on an empty pool raises IndexError
PartitionFail ==
    /\ pc = "partition"
    /\ LoopContinues(placed, markers, pool)
    /\ pool = {}
    /\ pc' = "error"
    /\ err' = "IndexError"
    /\ UNCHANGED <<markers, cells, placed, pool, args, limit, n, turn, moves, events, call, out>>

\* PartitionAccept that gives the accepted cell to the next marker of the grid
PartitionAcceptRegisters ==
    /\ pc = "partition"
    /\ LoopContinues(placed, markers, pool)
    /\ \E cell \in pool :
          LET m == Marker(Len(placed), NoFraction, cell)
          IN  /\ Accepts(placed, cell, cells)
              /\ placed' = Append(placed, m)
              /\ pool' = pool \ ZoneCells(m, cells)
              /\ markers' = [markers EXCEPT ![Len(placed) + 1].cell = cell]
    /\ UNCHANGED <<cells, pc, args, limit, n, turn, moves, events, err, call, out>>

\* one iteration of the loop that accepts the drawn cell
PartitionAccept ==
    /\ pc = "partition"
    /\ LoopContinues(placed, markers, pool)
    /\ \E cell \in pool :
          LET m == Marker(Len(placed), NoFraction, cell)
          IN  /\ Accepts(placed, cell, cells)
              /\ placed' = Append(placed, m)
              /\ pool' = pool \ ZoneCells(m, cells)
    /\ UNCHANGED <<markers, cells, pc, args, limit, n, turn, moves, events, err, call, out>>

\* one iteration of the loop that rejects the drawn cell: nothing changes
PartitionReject ==
    /\ pc = "partition"
    /\ LoopContinues(placed, markers, pool)
    /\ \E cell \in pool : ~ Accepts(placed, cell, cells)
    /\ UNCHANGED vars

\* the loop condition fails: return [m.cell for m in markers]
PartitionReturn ==
    /\ pc = "partition"
    /\ ~ LoopContinues(placed, markers, pool)
    /\ pc' = "partitioned"
    /\ UNCHANGED <<markers, cells, placed, pool, args, limit, n, turn, moves, events, err, call, out>>

\* the list partition() returns
Returned == [i \in 1..Len(placed) |-> placed[i].cell]

\* the lists `markers` partition() can end its loop with, from the list ps
\* and the pool pl, for a grid of count markers
RECURSIVE PartitionOutcomes(_, _, _, _)
PartitionOutcomes(ps, pl, cs, count) ==
    IF ~ (Len(ps) < count)
    THEN {ps}
    ELSE UNION {PartitionOutcomes(Append(ps, Marker(Len(ps), NoFraction, cell)),
                                  pl \ ZoneCells(Marker(Len(ps), NoFraction, cell), cs),
                                  cs, count) :
                cell \in {c \in pl : Accepts(ps, c, cs)}}

---------------------------------------------------------------------------
(* Grid.mark *)

Min(a, b) == IF a < b THEN a ELSE b

\* a cell that is not of the grid
Foreign(cs) == Cell(<<Len(cs), Len(cs)>>)

\* the argument lists mark() is called with: a prefix of the cells
\* partition() returned, those cells and one more, or those cells with one
\* of them replaced by a cell that is not of the grid
MarkArgs(result, cs) ==
    {SubSeq(result, 1, j) : j \in 0..Len(result)}
    \cup {Append(result, cs[1])}
    \cup {[result EXCEPT ![p] = Foreign(cs)] : p \in 1..Len(result)}

\* number of (cell, marker) pairs of zip(args, markers) handled before the
\* loop ends or self.cells[cell.spot] raises KeyError
Marked(ms, cs, as) ==
    LET pairs == Min(Len(as), Len(ms))
        bad == {i \in 1..pairs : ~ HasSpot(cs, as[i].spot)}
    IN  IF bad = {} THEN pairs
        ELSE (CHOOSE i \in bad : \A j \in bad : i <= j) - 1

\* self.cells[cell.spot] raises KeyError for some pair
MarkRaises(ms, cs, as) ==
    \E i \in 1..Min(Len(as), Len(ms)) : ~ HasSpot(cs, as[i].spot)

\* MarkAssign that pairs the cells with the markers in reverse order
MarkAssignReversed(ms, cs, as) ==
    [i \in 1..Len(ms) |->
        IF Len(ms) + 1 - i <= Marked(ms, cs, as)
        THEN [ms[i] EXCEPT !.cell = CellAt(cs, as[Len(ms) + 1 - i].spot)]
        ELSE ms[i]]

\* MarkAssign that stores the given cell, not the grid's cell at its spot
MarkAssignUnchecked(ms, cs, as) ==
    [i \in 1..Len(ms) |->
        IF i <= Min(Len(as), Len(ms))
        THEN [ms[i] EXCEPT !.cell = as[i]]
        ELSE ms[i]]

\* the markers after mark(*as)
MarkAssign(ms, cs, as) ==
    [i \in 1..Len(ms) |->
        IF i <= Marked(ms, cs, as)
        THEN [ms[i] EXCEPT !.cell = CellAt(cs, as[i].spot)]
        ELSE ms[i]]

Mark ==
    /\ pc = "partitioned"
    /\ \E a \in MarkArgs(Returned, cells) :
          /\ args' = a
          /\ markers' = MarkAssign(markers, cells, a)
          /\ IF MarkRaises(markers, cells, a)
             THEN pc' = "error" /\ err' = "KeyError"
             ELSE pc' = "marked" /\ err' = err
    /\ UNCHANGED <<cells, placed, pool, limit, n, turn, moves, events, call, out>>


---------------------------------------------------------------------------
(* game *)

\* the list `options` a turn of game() collects for the marker at position
\* self: the options of every cell of its zone but its own cell, in the
\* order of the zone
RECURSIVE CollectFrom(_, _, _, _, _)
CollectFrom(ms, cs, self, zone, i) ==
    IF i > Len(zone)
    THEN <<>>
    ELSE LET cell == CellAt(cs, zone[i])
         IN  IF cell = ms[self].cell
             THEN CollectFrom(ms, cs, self, zone, i + 1)
             ELSE Options(ms, self, cell) \o CollectFrom(ms, cs, self, zone, i + 1)

\* Candidates over every cell of the grid, not the cells of the zone
CandidatesAnywhere(ms, cs, self) ==
    IF ms[self].cell = NoCell
    THEN <<>>
    ELSE CollectFrom(ms, cs, self, [i \in 1..Len(cs) |-> cs[i].spot], 1)

Candidates(ms, cs, self) == CollectFrom(ms, cs, self, Zone(ms[self], cs), 1)

\* marker.options(cell) is called in the turn of the marker at position self
CallsOptions(ms, cs, self) ==
    \E i \in 1..Len(Zone(ms[self], cs)) :
        CellAt(cs, Zone(ms[self], cs)[i]) # ms[self].cell

\* the exception a turn raises, "" if none: AttributeError from options()
\* when another marker has no cell, IndexError from random.choice(options)
\* when the list of options is empty
TurnError(ms, cs, self) ==
    IF CallsOptions(ms, cs, self) /\ OptionsRaises(ms, self)
    THEN "AttributeError"
    ELSE IF Candidates(ms, cs, self) = <<>>
         THEN "IndexError"
         ELSE ""

\* next((i for i in options if i.total == goal), random.choice(options)):
\* the options the turn can apply
IsGoal(o) == o.total = Goal

\* Choices that always draws at random
ChoicesRandom(options) == Range(options)

Choices(options) ==
    IF SelectSeq(options, IsGoal) # <<>>
    THEN {SelectSeq(options, IsGoal)[1]}
    ELSE Range(options)

\* the spot the move's log record names: the variable `cell` as the loop
\* over the zone left it, the cell of the last spot of the zone
LoggedSpot(ms, cs, self) ==
    LET zone == Zone(ms[self], cs) IN CellAt(cs, zone[Len(zone)]).spot

\* the record of logger.info for a move
Event(ms, cs, self, chosen) ==
    [id |-> ms[self].id, spot |-> LoggedSpot(ms, cs, self), value |-> chosen.result]

\* Apply that moves the marker and leaves its value
ApplyCellOnly(ms, self, chosen) ==
    [ms EXCEPT ![self] = Marker(ms[self].id, ms[self].value, chosen.cell)]

\* marker.cell = chosen.cell; marker.value = chosen.result
Apply(ms, self, chosen) ==
    [ms EXCEPT ![self] = Marker(ms[self].id, chosen.result, chosen.cell)]

\* IsWin that compares the result, not the total
IsWinOnResult(chosen) == chosen.result = Goal

\* `if chosen.total == goal` after the move is applied
IsWin(chosen) == chosen.total = Goal

\* Advance that stays on the marker that moved
AdvanceSameMarker(t, k, count) == <<t, k + 1>>

\* Advance that counts a turn for every move
AdvanceEveryMove(t, k, count) == <<IF t < count THEN t + 1 ELSE 1, k + 1>>

\* the for loop moves on to the next marker; after the last marker of
\* grid.markers a turn is complete: n += 1
Advance(t, k, count) == IF t < count THEN <<t + 1, k>> ELSE <<1, k + 1>>

\* the applied moves the game loop is explored up to: on a board of more
\* than 9 cells the exploration ends two moves earlier
MoveCap(cs) == IF Len(cs) > 9 THEN MaxMoves - 2 ELSE MaxMoves

\* game() is entered: moves = [], n = 0
GameCall ==
    /\ pc = "marked"
    /\ pc' = "game"
    /\ limit' \in Limits
    /\ n' = 0
    /\ turn' = 1
    /\ moves' = <<>>
    /\ events' = <<>>
    /\ args' = <<>>
    /\ UNCHANGED <<markers, cells, placed, pool, err, call, out>>

\* GameTurnFail that passes over the marker and goes on with the next
GameTurnSkip ==
    /\ pc = "game"
    /\ n < limit
    /\ Len(moves) < MoveCap(cells)
    /\ TurnError(markers, cells, turn) # ""
    /\ turn' = Advance(turn, n, Count)[1]
    /\ n' = Advance(turn, n, Count)[2]
    /\ UNCHANGED <<markers, cells, pc, placed, pool, args, limit, moves, events, err, call, out>>

\* the turn of the marker at position `turn` raises
GameTurnFail ==
    /\ pc = "game"
    /\ n < limit
    /\ Len(moves) < MoveCap(cells)
    /\ TurnError(markers, cells, turn) # ""
    /\ pc' = "error"
    /\ err' = TurnError(markers, cells, turn)
    /\ UNCHANGED <<markers, cells, placed, pool, args, limit, n, turn, moves, events, call, out>>

\* the turn of the marker at position `turn`: an option is chosen, logged,
\* applied and appended; the game returns if its total is the goal
GameTurn ==
    /\ pc = "game"
    /\ n < limit
    /\ Len(moves) < MoveCap(cells)
    /\ TurnError(markers, cells, turn) = ""
    /\ \E chosen \in Choices(Candidates(markers, cells, turn)) :
          /\ events' = Append(events, Event(markers, cells, turn, chosen))
          /\ markers' = Apply(markers, turn, chosen)
          /\ moves' = Append(moves, chosen)
          /\ IF IsWin(chosen)
             THEN pc' = "won" /\ UNCHANGED <<turn, n>>
             ELSE /\ pc' = pc
                  /\ turn' = Advance(turn, n, Count)[1]
                  /\ n' = Advance(turn, n, Count)[2]
    /\ UNCHANGED <<cells, placed, pool, args, limit, err, call, out>>

\* the loop condition n < limit fails: return moves
GameReturn ==
    /\ pc = "game"
    /\ ~ (n < limit)
    /\ pc' = "exhausted"
    /\ UNCHANGED <<markers, cells, placed, pool, args, limit, n, turn, moves, events, err, call, out>>

---------------------------------------------------------------------------
Next ==
    \/ PartitionCall
    \/ PartitionFail
    \/ PartitionAccept
    \/ PartitionReject
    \/ PartitionReturn
    \/ Mark
    \/ GameCall
    \/ GameTurnFail
    \/ GameTurn
    \/ GameReturn

Spec == Init /\ [][Next]_vars

\* run() is a sequential program: it takes its next step whenever it has
\* one; stated for the failing draw of partition() and the return of game()
FairSpec == Spec /\ WF_vars(PartitionFail) /\ WF_vars(GameReturn)

TypeOK ==
    /\ pc \in {"built", "partition", "partitioned", "marked", "game",
               "won", "exhausted", "error"}
    /\ err \in {"", "IndexError", "KeyError", "AttributeError"}
    /\ Len(moves) <= MaxMoves


---------------------------------------------------------------------------
(* Direct calls of Grid.Marker.results and Grid.Marker.options on a grid:   *)
(* one call per behaviour, the calls leave the grid as it is                *)

\* the values a marker is given: fractions of one-digit terms
AllValues == {Fraction(a, b) : a \in 0..9, b \in 1..9}

\* the numbers results() is called with: the values of cells, and below
Cardinals == 0..7

\* the grids the calls are made on: a grid of three markers as built, on the
\* 3 x 3 board, marked with any three cells; or a grid of two markers of any
\* values on that board, marked with the cells (0, 0) and (1, 1)
InitCall ==
    /\ cells = BuildCells(3)
    /\ \/ \E sample \in Samples(3) : \E c1, c2, c3 \in Range(BuildCells(3)) :
             markers = MarkAssign(BuildMarkers(sample), BuildCells(3), <<c1, c2, c3>>)
       \/ \E v1, v2 \in AllValues :
             markers = <<Marker(1, v1, Cell(<<0, 0>>)), Marker(2, v2, Cell(<<1, 1>>))>>
    /\ pc = "marked"
    /\ placed = <<>>
    /\ pool = {}
    /\ args = <<>>
    /\ limit = 0
    /\ n = 0
    /\ turn = 1
    /\ moves = <<>>
    /\ events = <<>>
    /\ err = ""
    /\ call = NoCall
    /\ out = <<>>

\* list(marker.results(cardinal)) for a marker of the grid
ResultsCall ==
    /\ pc = "marked"
    /\ call = NoCall
    /\ \E i \in 1..Count : \E c \in Cardinals :
          /\ call' = [name |-> "results", self |-> i, cardinal |-> c, cell |-> NoCell]
          /\ out' = Results(markers[i].value, c)
    /\ UNCHANGED <<markers, cells, pc, placed, pool, args, limit, n, turn, moves,
                   events, err>>

\* list(marker.options(cell)) for a marker and a cell of the grid
OptionsCall ==
    /\ pc = "marked"
    /\ call = NoCall
    /\ \E i \in 1..Count : \E j \in 1..Len(cells) :
          /\ ~ OptionsRaises(markers, i)
          /\ call' = [name |-> "options", self |-> i, cardinal |-> 0, cell |-> cells[j]]
          /\ out' = Options(markers, i, cells[j])
    /\ UNCHANGED <<markers, cells, pc, placed, pool, args, limit, n, turn, moves,
                   events, err>>

\* a.transits(b), b.transits(a) and a.transits(a) for the cell a of a marker
\* of the grid and a cell b of the grid
TransitsCall ==
    /\ pc = "marked"
    /\ call = NoCall
    /\ \E i \in 1..Count : \E j \in 1..Len(cells) :
          /\ call' = [name |-> "transits", self |-> i, cardinal |-> 0, cell |-> cells[j]]
          /\ out' = <<Transits(markers[i].cell, cells[j]),
                      Transits(cells[j], markers[i].cell),
                      Transits(markers[i].cell, markers[i].cell)>>
    /\ UNCHANGED <<markers, cells, pc, placed, pool, args, limit, n, turn, moves,
                   events, err>>

NextCall == ResultsCall \/ OptionsCall \/ TransitsCall

CallSpec == InitCall /\ [][NextCall]_vars

---------------------------------------------------------------------------
(* Grid.partition on every build, the default build included *)

InitPartition ==
    /\ \E a \in BuildArgs \cup {DefaultArgs} :
          /\ \E sample \in Samples(a[1]) : markers = BuildMarkers(sample)
          /\ cells = BuildCells(BoardSize(a[1], a[2]))
    /\ pc = "built"
    /\ placed = <<>>
    /\ pool = {}
    /\ args = <<>>
    /\ limit = 0
    /\ n = 0
    /\ turn = 1
    /\ moves = <<>>
    /\ events = <<>>
    /\ err = ""
    /\ call = NoCall
    /\ out = <<>>

NextPartition ==
    \/ PartitionCall
    \/ PartitionFail
    \/ PartitionAccept
    \/ PartitionReject
    \/ PartitionReturn

\* random.choice is fair: a cell that partition() accepts is drawn in the
\* end; the loop of partition() takes its next step whenever it has one
PartitionSpec ==
    /\ InitPartition
    /\ [][NextPartition]_vars
    /\ WF_vars(PartitionAccept)
    /\ WF_vars(PartitionFail)
    /\ WF_vars(PartitionReturn)

---------------------------------------------------------------------------
(* game on the default build *)

\* the spots of the first cell partition() draws, in the grids game() is
\* explored on
FirstSpots == {<<0, 0>>, <<0, 1>>}

\* the outcomes of partition() on the default build with such a first cell
DefaultOutcomes ==
    {ps \in PartitionOutcomes(<<>>, Range(BuildCells(BoardSize(4, 4))),
                              BuildCells(BoardSize(4, 4)), DefaultArgs[1]) :
        ps[1].cell.spot \in FirstSpots}

\* the default build after grid.mark(*grid.partition()), or after mark() was
\* given all but the last cell of the partition
InitDefault ==
    /\ cells = BuildCells(BoardSize(4, 4))
    /\ \E sample \in Samples(DefaultArgs[1]) : \E ps \in DefaultOutcomes :
       \E j \in {Len(ps) - 1, Len(ps)} :
          /\ placed = ps
          /\ args = SubSeq([i \in 1..Len(ps) |-> ps[i].cell], 1, j)
          /\ markers = MarkAssign(BuildMarkers(sample), BuildCells(BoardSize(4, 4)),
                                  SubSeq([i \in 1..Len(ps) |-> ps[i].cell], 1, j))
    /\ pc = "marked"
    /\ pool = {}
    /\ limit = 0
    /\ n = 0
    /\ turn = 1
    /\ moves = <<>>
    /\ events = <<>>
    /\ err = ""
    /\ call = NoCall
    /\ out = <<>>

NextDefault ==
    \/ GameCall
    \/ GameTurnFail
    \/ GameTurn
    \/ GameReturn

DefaultSpec == InitDefault /\ [][NextDefault]_vars

---------------------------------------------------------------------------
(* Properties *)

Quadrant(cell) == <<cell.spot[1] \div 2, cell.spot[2] \div 2>>

\* every marker of the grid has a cell
FullyMarked == \A i \in 1..Count : markers[i].cell # NoCell

\* partition() has returned
PartitionReturned == pc \in {"partitioned", "marked", "game", "won", "exhausted"}

\* C1: once partition() has returned, it returned one cell per marker of
\* the grid, and any two of the returned cells lie in different quadrants
\* and do not transit each other (|dx| # |dy|)
C1_PartitionResult ==
    PartitionReturned =>
        /\ Len(Returned) = Count
        /\ \A i, j \in 1..Len(Returned) :
              i # j =>
                 /\ Quadrant(Returned[i]) # Quadrant(Returned[j])
                 /\ Abs(Returned[i].spot[1] - Returned[j].spot[1])
                       # Abs(Returned[i].spot[2] - Returned[j].spot[2])

\* partition() has returned three cells for a grid of three markers
C1_Witness == pc = "partitioned" /\ Count = 3 /\ Len(Returned) = 3

\* the values of k in 0..c whose denominator (d + (c - k)) mod 10 is not 0
KeptKs(d, c) == {k \in 0..c : (d + (c - k)) % 10 # 0}

\* the i-th smallest element of a set of numbers
Nth(S, i) == CHOOSE k \in S : Cardinality({j \in S : j < k}) = i - 1

\* the list rs is the result sequence of a value v for the number c
ResultsAsSpecified(rs, v, c) ==
    \A ks \in {KeptKs(v.den, c)} :
        /\ Len(rs) = Cardinality(ks)
        /\ Len(rs) <= c + 1
        /\ \A i \in 1..Len(rs) : \A k \in {Nth(ks, i)} :
              /\ rs[i].num * ((v.den + (c - k)) % 10)
                    = ((v.num + k) % 10) * rs[i].den
              /\ rs[i].num \in 0..9
              /\ rs[i].den \in 0..9

\* C5: for a marker of value n/d and a number c, results(c) yields, in the
\* order of k = 0..c, the rational ((n+k) mod 10) / ((d+(c-k)) mod 10) for
\* every k whose denominator is not 0 and nothing for the others; it has at
\* most c+1 elements and every numerator and denominator is in 0..9
C5_Results ==
    call.name = "results" =>
        ResultsAsSpecified(out, markers[call.self].value, call.cardinal)

\* results() was called for a marker whose value is not a ninth, passed
\* over some k and produced some fraction
C5_Witness ==
    /\ call.name = "results"
    /\ markers[call.self].value.den # 9
    /\ 0 < Len(out)
    /\ Len(out) < call.cardinal + 1

\* the other markers whose cell transits the cell
TransitSet(self, cell) ==
    {t \in 1..Count :
        /\ t # self
        /\ Abs(markers[t].cell.spot[1] - cell.spot[1])
              = Abs(markers[t].cell.spot[2] - cell.spot[2])}

\* the list os is the list of options of the marker at position self for
\* the cell
OptionsAsSpecified(os, self, cell) ==
    \A rs \in {Results(markers[self].value, CellValue(cell))} :
    \A ts \in {TransitSet(self, cell)} :
    \A w \in {1 + Cardinality(ts)} :
        /\ Len(os) = Len(rs) * w
        /\ \A i \in 1..Len(rs) :
              /\ os[(i - 1) * w + 1] = Option(self, cell, rs[i], NoMarker, NoFraction)
              /\ \A j \in 1..(w - 1) :
                    \A o \in {os[(i - 1) * w + 1 + j]} : \A t \in {Nth(ts, j)} :
                        /\ o.marker = self
                        /\ o.cell = cell
                        /\ o.result = rs[i]
                        /\ o.transit = t
                        /\ o.transit # self
                        /\ o.total.den # 0
                        /\ o.total.num * (rs[i].den * markers[t].value.den)
                              = (rs[i].num * markers[t].value.num) * o.total.den

\* C6: on a grid whose markers all have a cell, options(marker, cell) is,
\* for each result r in generation order, the option (marker, cell, r)
\* without transit and total, followed by one option per other marker t
\* whose cell transits the cell, in the order of the grid's markers, with
\* total r * t.value; the marker is never its own transit and the number of
\* options is len(results) * (1 + number of transit markers)
C6_Options ==
    call.name = "options" => OptionsAsSpecified(out, call.self, call.cell)

\* options() was called for a cell that two other markers transit, and the
\* cell of the acting marker transits it too
C6_Witness ==
    /\ call.name = "options"
    /\ Cardinality(TransitSet(call.self, call.cell)) = 2
    /\ Transits(markers[call.self].cell, call.cell)
    /\ Len(out) > 0


---------------------------------------------------------------------------
(* The game loop *)

\* game() has failed on a grid whose markers all have a cell
GameFailed == pc = "error" /\ FullyMarked

\* the moves game() has still to make when no move wins
Remaining == (limit - n) * Count - (turn - 1)

\* the statement of C2 as made: a game on a partitioned grid does not fail
C2_Original == ~ GameFailed

\* the outcome of game() on a partitioned grid
C2_Outcomes ==
    FullyMarked =>
        /\ Len(moves) <= limit * Count
        /\ pc = "game" => Remaining >= 0
        /\ pc = "won" => moves # <<>> /\ moves[Len(moves)].total = Goal
        /\ pc = "exhausted" =>
              /\ n = limit
              /\ Len(moves) = limit * Count
              /\ \A i \in 1..Len(moves) : moves[i].total # Goal
        /\ pc = "error" =>
              /\ err = "IndexError"
              /\ Candidates(markers, cells, turn) = <<>>
              /\ Len(moves) < limit * Count
              /\ \A i \in 1..Len(moves) : moves[i].total # Goal

\* the loop of game() has made its last turn
TurnsDone == pc = "game" /\ ~ (n < limit)

\* game() has returned after completing its turns
Exhausted == pc = "exhausted"

\* C2 (amended): for a turn limit >= 0 and a partitioned grid, game()
\* terminates; the move log never exceeds limit x marker_count entries, and
\* game() ends in exactly one of three ways: Won (the last applied move has
\* total equal to goal), Exhausted (limit full turns were completed, the log
\* has exactly limit x marker_count entries and no entry has total equal to
\* goal), or Failed (a marker without candidate options is to move:
\* IndexError, the log has fewer entries and none has total equal to goal).
\* Termination: the number of moves still to make is never negative, every
\* move that does not end the game decreases it, and a game whose turns are
\* done returns.
C2_GameEnds ==
    /\ []C2_Outcomes
    /\ [][(pc = "game" /\ pc' = "game") => Remaining' < Remaining]_vars
    /\ TurnsDone ~> Exhausted

\* a game of one turn has ended Exhausted after a move of every marker
C2_Witness ==
    pc = "exhausted" /\ FullyMarked /\ limit = 1 /\ Len(moves) = Count

\* C3: on every turn, if a candidate option has total equal to goal, the
\* option applied is the first such candidate in iteration order, the
\* candidates being listed by zone cell in grid order (by x, then by y); an
\* option whose total is not goal is applied only when no candidate of the
\* turn has total goal
C3_Selection ==
    [][(pc = "game" /\ moves' # moves) =>
          \A os \in {Candidates(markers, cells, turn)} :
          \A chosen \in {moves'[Len(moves')]} :
             /\ \E i \in 1..Len(os) : os[i] = chosen
             /\ \A i \in 1..(Len(os) - 1) :
                   \/ os[i].cell.spot[1] < os[i + 1].cell.spot[1]
                   \/ /\ os[i].cell.spot[1] = os[i + 1].cell.spot[1]
                      /\ os[i].cell.spot[2] <= os[i + 1].cell.spot[2]
             /\ (\E i \in 1..Len(os) : os[i].total = Goal) =>
                   \E i \in 1..Len(os) :
                      /\ os[i] = chosen
                      /\ os[i].total = Goal
                      /\ \A j \in 1..(i - 1) : os[j].total # Goal
             /\ chosen.total # Goal =>
                   \A i \in 1..Len(os) : os[i].total # Goal]_vars

\* a move whose total is the goal has been applied in the second turn
C3_Witness ==
    /\ n = 1
    /\ moves # <<>>
    /\ moves[Len(moves)].total = Goal

\* C4: game() stops right after a move whose total equals goal: only the last
\* entry of the log can have total equal to goal, and then the game is Won,
\* the entry names a transit marker other than the acting marker, and the
\* acting marker's value times the transit marker's value is goal exactly;
\* a move without transit has no total and never ends the game
C4_WinningMove ==
    /\ pc = "won" => moves # <<>> /\ moves[Len(moves)].total = Goal
    /\ \A i \in 1..Len(moves) :
          /\ moves[i].total = Goal =>
                /\ i = Len(moves)
                /\ pc = "won"
                /\ moves[i].transit # NoMarker
                /\ moves[i].transit # moves[i].marker
                /\ markers[moves[i].marker].value = moves[i].result
                /\ markers[moves[i].marker].value.num
                      * markers[moves[i].transit].value.num * Goal.den
                   = Goal.num * markers[moves[i].marker].value.den
                      * markers[moves[i].transit].value.den
          /\ moves[i].transit = NoMarker =>
                /\ moves[i].total = NoFraction
                /\ ~ (pc = "won" /\ i = Len(moves))

\* the game is Won by the first marker, in its second move, against the second
C4_Witness ==
    /\ pc = "won"
    /\ Len(moves) = 3
    /\ moves[Len(moves)].marker = 1
    /\ moves[Len(moves)].transit = 2

\* C7: the record logged for a move carries the acting marker's id, the
\* coordinate of the cell the marker is moved to and the resulting value
C7_EventOfMove ==
    /\ Len(events) = Len(moves)
    /\ \A i \in 1..Len(events) :
          /\ events[i].id = markers[moves[i].marker].id
          /\ events[i].spot = moves[i].cell.spot
          /\ events[i].value = moves[i].result

---------------------------------------------------------------------------
(* mark and partition *)

\* C8: mark(c1..cj), the ci being cells whose coordinates are of the grid,
\* pairs cells with markers by position: the i-th marker in insertion order,
\* i <= min(j, marker_count), gets the grid's cell at the coordinate of ci;
\* with j < marker_count no error is raised and the cell of every marker
\* after position j is left as it was, unset
C8_MarkPairs ==
    [][pc = "partitioned" =>
          \A a \in {args'} : \A k \in {Min(Len(a), Count)} :
             (\A i \in 1..k : HasSpot(cells, a[i].spot)) =>
                /\ pc' = "marked"
                /\ err' = ""
                /\ \A i \in 1..Count :
                      /\ markers'[i].id = markers[i].id
                      /\ markers'[i].value = markers[i].value
                      /\ i <= k => /\ markers'[i].cell \in Range(cells)
                                   /\ markers'[i].cell.spot = a[i].spot
                      /\ i > k => /\ markers'[i].cell = markers[i].cell
                                  /\ markers'[i].cell = NoCell]_vars

\* mark() was given fewer cells than the grid has markers, but one at least
C8_Witness ==
    /\ pc = "marked"
    /\ 0 < Len(args)
    /\ Len(args) < Count
    /\ markers[Len(args)].cell = args[Len(args)]
    /\ markers[Count].cell = NoCell

\* the pool is empty while markers remain unplaced
Starved == pc = "partition" /\ pool = {} /\ Len(placed) < Count

\* partition() has failed on a draw from the empty pool
DrawFailed == pc = "error" /\ err = "IndexError" /\ pool = {}

\* the statement of C9 as made: with the pool exhausted and markers left to
\* place, partition() stays in its loop: it neither returns nor fails
C9_Original == [][Starved => pc' = "partition"]_vars

\* C9 (amended): if during partition() the pool becomes empty while markers
\* remain unplaced, partition() does not retry: the next draw from the empty
\* pool fails (IndexError), with no further placement and without returning
C9_StarvedFails ==
    /\ [][Starved => (pc' = "error" /\ err' = "IndexError" /\ placed' = placed)]_vars
    /\ Starved ~> DrawFailed

\* partition() has failed on an empty pool after placing one of two markers
C9_Witness ==
    /\ pc = "error"
    /\ err = "IndexError"
    /\ pool = {}
    /\ Len(placed) = 1
    /\ Count = 2

\* the side of the board
Side == CHOOSE k \in 0..Len(cells) : k * k = Len(cells)

\* C10: every marker that has a cell has a cell of the grid's cell mapping,
\* of a coordinate in [0,size) x [0,size)
C10_CellOfGrid ==
    \A i \in 1..Count :
        markers[i].cell # NoCell =>
            /\ markers[i].cell \in Range(cells)
            /\ markers[i].cell.spot[1] \in 0..(Side - 1)
            /\ markers[i].cell.spot[2] \in 0..(Side - 1)

\* mark() has failed on a cell that is not of the grid after it gave the
\* first marker its cell
C10_Witness ==
    /\ pc = "error"
    /\ err = "KeyError"
    /\ markers[1].cell # NoCell
    /\ markers[2].cell = NoCell

---------------------------------------------------------------------------
(* The moves of the game loop *)

\* C11: the moves are applied in the order of the grid's markers, one move
\* per marker per turn, and every applied move is appended to the log: the
\* k-th entry of the log (from 0) is a move of the marker at position
\* k mod marker_count; while the game runs the log holds the moves of the n
\* completed turns and of the markers before the one to move, and the log
\* of a game that ended Exhausted holds marker_count moves per turn
C11_MoveOrder ==
    /\ \A k \in 1..Len(moves) : moves[k].marker = ((k - 1) % Count) + 1
    /\ pc = "game" => Len(moves) = n * Count + (turn - 1)
    /\ pc = "exhausted" => Len(moves) = n * Count
    /\ pc = "won" => Len(moves) = n * Count + turn

\* a game of two markers was Won by the third move, the first marker's second
C11_Witness ==
    /\ pc = "won"
    /\ Count = 2
    /\ Len(moves) = 3
    /\ moves[1].marker = 1
    /\ moves[2].marker = 2
    /\ moves[3].marker = 1

\* C12: a move of game() sets the cell of the marker to move to the chosen
\* cell, a cell of the grid in the quadrant of the cell the marker was on
\* and other than that cell, and sets its value to the chosen result; the
\* other markers and the cells of the grid are left as they were
C12_ApplyMove ==
    [][(pc = "game" /\ moves' # moves) =>
          \A chosen \in {moves'[Len(moves')]} :
             /\ chosen.marker = turn
             /\ markers'[turn].id = markers[turn].id
             /\ markers'[turn].cell = chosen.cell
             /\ markers'[turn].value = chosen.result
             /\ chosen.cell \in Range(cells)
             /\ Quadrant(chosen.cell) = Quadrant(markers[turn].cell)
             /\ chosen.cell # markers[turn].cell
             /\ \A i \in 1..Count : i # turn => markers'[i] = markers[i]
             /\ cells' = cells]_vars

\* the first marker has moved and taken a value that is not a ninth
C12_Witness ==
    /\ pc = "game"
    /\ Len(moves) = 1
    /\ markers[1].cell = moves[1].cell
    /\ markers[1].value = moves[1].result
    /\ markers[1].value.den # 9

\* C13: the value of every marker of the grid, built as a ninth and changed
\* by the moves of game(), is a fraction in lowest terms with numerator in
\* 0..9 and denominator in 1..9; the denominator is never 0
C13_ValueDigits ==
    \A i \in 1..Count :
        /\ markers[i].value.num \in 0..9
        /\ markers[i].value.den \in 1..9
        /\ GCD(markers[i].value.num, markers[i].value.den) = 1

\* a move has taken a numerator past 9: the marker's value is 0
C13_Witness ==
    /\ moves # <<>>
    /\ \E i \in 1..Count : markers[i].value = [num |-> 0, den |-> 1]

---------------------------------------------------------------------------
(* Cell.transits *)

\* C14: transits is symmetric and reflexive over the cells of the board:
\* a.transits(b) = b.transits(a), a.transits(a) is true, and a.transits(b)
\* holds exactly when |a.x - b.x| = |a.y - b.y|
C14_Transits ==
    call.name = "transits" =>
        \A a \in {markers[call.self].cell} : \A b \in {call.cell} :
            /\ out[1] = out[2]
            /\ out[3] = TRUE
            /\ out[1] = (Abs(a.spot[1] - b.spot[1]) = Abs(a.spot[2] - b.spot[2]))

\* transits was called for two cells of an anti-diagonal, and was true
C14_Witness ==
    /\ call.name = "transits"
    /\ out = <<TRUE, TRUE, TRUE>>
    /\ call.cell.spot[1] > markers[call.self].cell.spot[1]
    /\ call.cell.spot[1] - markers[call.self].cell.spot[1]
          = markers[call.self].cell.spot[2] - call.cell.spot[2]

---------------------------------------------------------------------------
(* A turn without candidate options; the quadrants of the markers *)

\* the marker to move is alone in its quadrant: no other cell of the grid
\* lies in the quadrant of its cell
LonelyTurn ==
    \A c \in Range(cells) :
        Quadrant(c) = Quadrant(markers[turn].cell) => c = markers[turn].cell

\* the marker at position i has a cell to move to with a result: a cell of
\* the grid in its quadrant, other than its own, for which some k keeps a
\* denominator other than 0
HasMove(i) ==
    \E c \in Range(cells) :
        /\ Quadrant(c) = Quadrant(markers[i].cell)
        /\ c # markers[i].cell
        /\ KeptKs(markers[i].value.den, CellValue(c)) # {}

\* a turn of game() on a marked grid begins and the marker to move has no
\* candidate option: no cell to move to with a result
NoCandidates ==
    /\ pc = "game"
    /\ n < limit
    /\ FullyMarked
    /\ ~ HasMove(turn)

\* C15: when the marker to move has no candidate option, game() does not
\* pass over the turn: the step it takes fails (IndexError), and leaves the
\* cell and the value of every marker, the move log and the position of the
\* loop as they were; game() on a marked grid fails in no other case
C15_NoFallback ==
    /\ [][NoCandidates =>
             /\ pc' = "error"
             /\ err' = "IndexError"
             /\ markers' = markers
             /\ moves' = moves
             /\ events' = events
             /\ turn' = turn
             /\ n' = n]_vars
    /\ [](GameFailed => (err = "IndexError" /\ ~ HasMove(turn)))

\* game() has failed at the turn of the second marker, alone in its
\* quadrant, after the move of the first
C15_Witness ==
    /\ pc = "error"
    /\ err = "IndexError"
    /\ FullyMarked
    /\ turn = 2
    /\ Len(moves) = 1
    /\ LonelyTurn

\* C16: on a grid marked with the output of partition(), at every point of
\* game() every marker is in the quadrant of the cell partition() placed it
\* on; any two markers are in different quadrants, on different cells, and
\* their zones have no spot in common
C16_StaysInQuadrant ==
    (FullyMarked /\ pc \in {"marked", "game", "won", "exhausted", "error"}) =>
        /\ Len(placed) = Count
        /\ \A i \in 1..Count : Quadrant(markers[i].cell) = Quadrant(placed[i].cell)
        /\ \A i \in 1..Count : \A j \in (i + 1)..Count :
              /\ Quadrant(markers[i].cell) # Quadrant(markers[j].cell)
              /\ markers[i].cell # markers[j].cell
              /\ Range(Zone(markers[i], cells))
                    \cap Range(Zone(markers[j], cells)) = {}

\* two markers have each moved off the cell partition() placed them on
C16_Witness ==
    /\ pc = "game"
    /\ FullyMarked
    /\ Len(moves) >= 2
    /\ markers[1].cell # placed[1].cell
    /\ markers[2].cell # placed[2].cell

---------------------------------------------------------------------------
(* partition and game on the default build *)

\* the grid is the default build: 4 markers on the 4 x 4 board
DefaultBuild == Count = 4 /\ Len(cells) = 16

\* partition() has a cell to accept: the pool holds a cell that transits
\* none of the accepted cells
HasOpenCell ==
    \E c \in pool :
        \A k \in 1..Len(placed) :
            Abs(c.spot[1] - placed[k].cell.spot[1])
               # Abs(c.spot[2] - placed[k].cell.spot[2])

\* partition() runs on the default build
Partitioning == DefaultBuild /\ pc = "partition"

\* partition() has returned four cells
PartitionedFour == pc = "partitioned" /\ Len(Returned) = 4

\* C17: on the default build partition() has no dead end: as long as fewer
\* than 4 cells are accepted the pool is not empty and holds a cell that
\* transits none of the accepted cells; partition() does not fail, and with
\* a fair random choice it returns 4 cells in the end
C17_NoDeadEnd ==
    /\ [](Partitioning /\ Len(placed) < 4 => pool # {} /\ HasOpenCell)
    /\ [](DefaultBuild => pc # "error")
    /\ Partitioning ~> PartitionedFour

\* partition() has returned four cells on the default build
C17_Witness == DefaultBuild /\ pc = "partitioned" /\ Len(placed) = 4 /\ pool = {}

\* results() is not empty for any value of one-digit terms and the value of
\* any cell of the grid
ResultsNeverEmpty ==
    \A v \in AllValues : \A c \in {CellValue(cells[j]) : j \in 1..Len(cells)} :
        Results(v, c) # <<>>

\* C18: on the default build marked with the output of partition(), in
\* every state of game() every marker has a cell to move to and a result
\* for it, so that its list of candidate options is not empty, and game()
\* does not fail; when game() is called, results() is not empty for any
\* value a marker can take and the value of any cell
C18_OptionsExist ==
    (DefaultBuild /\ FullyMarked) =>
        /\ pc # "error"
        /\ \A i \in 1..Count : HasMove(i)
        /\ pc = "marked" => ResultsNeverEmpty

\* a marker has moved in a game on the default build
C18_Witness ==
    /\ DefaultBuild
    /\ FullyMarked
    /\ pc = "game"
    /\ Len(moves) >= 1
    /\ markers[1].cell # placed[1].cell

---------------------------------------------------------------------------
(* partition leaves the grid alone *)

\* the markers of the grid are as Grid.build made them: ids in order, a
\* ninth as value, no cell
AsBuilt ==
    \A i \in 1..Count :
        /\ markers[i].id = i
        /\ markers[i].value.den = 9
        /\ markers[i].cell = NoCell

\* C19: partition() computes a placement and changes nothing of the grid:
\* every step of partition(), its return and its failure included, leaves
\* the grid's markers (their number, cells and values) and the grid's cells
\* as they were; the markers of the grid have no cell before mark() is
\* called
C19_PartitionFrame ==
    /\ [](pc \in {"built", "partition", "partitioned"} => AsBuilt)
    /\ [][(pc = "built" \/ pc = "partition") =>
             (markers' = markers /\ cells' = cells)]_vars

\* partition() has returned two cells and the two markers of the grid have
\* no cell
C19_Witness ==
    /\ pc = "partitioned"
    /\ Count = 2
    /\ Len(placed) = 2
    /\ placed[2].cell # NoCell
    /\ markers[1].cell = NoCell
    /\ markers[2].cell = NoCell

====
